---- MODULE Spec2Model ----
(***************************************************************************)
(* Model of the pihole-ansible modules (plugins/modules/*.py).  Each       *)
(* module's main() is one invocation: argument validation, construction of *)
(* one PiHole6Client, the module body (remote calls through the client),   *)
(* the best-effort close_session and the terminal exit_json / fail_json.   *)
(* The appliance behind the client is the environment: every remote call   *)
(* either raises or returns a response body, chosen nondeterministically.  *)
(***************************************************************************)
EXTENDS Integers, Sequences, FiniteSets, TLC

VARIABLES
    pc,         \* position of the running invocation
    inv,        \* module.params and module.check_mode of the invocation
    result,     \* the `result` dict of main()
    out,        \* terminal call: exit_json / fail_json and its payload
    calls,      \* client constructions, remote calls and file writes so far
    loop,       \* domain_management: index of the next entry of `domains`
    mapping,    \* domain_management: group_mapping
    appliance,  \* state held by the appliance (blocking, timer, domain list)
    prevDisable \* history: the invocation before this one was a successful
                \* non-check dns_control disable with a timer, from enabled

vars == <<pc, inv, result, out, calls, loop, mapping, appliance, prevDisable>>

----------------------------------------------------------------------------
(* Bounds of the model *)

MaxTimer == 2
MaxBatch == 2

----------------------------------------------------------------------------
(* Python values that may be None are tagged *)

None == [t |-> "none"]
PyBool(b) == [t |-> "bool", v |-> b]
PyInt(n) == [t |-> "int", v |-> n]
PyStr(s) == [t |-> "str", v |-> s]
PyDict(keys) == [t |-> "dict", v |-> keys]

\* Python truth value testing (`if x:`, `not x`)
Truthy(x) ==
    CASE x.t = "none" -> FALSE
      [] x.t = "bool" -> x.v
      [] x.t = "int" -> x.v # 0
      [] x.t = "str" -> x.v # ""
      [] x.t = "dict" -> x.v # {}

\* dict.get(key, default)
Get(d, key, default) == IF key \in DOMAIN d THEN d[key] ELSE default

\* d[key] = value
Put(d, key, value) == (key :> value) @@ d

\* f(msg=..., **result)
Kw(kw, d) == kw @@ d

----------------------------------------------------------------------------
(* What a remote call can do: raise, or return a body *)

ExcTexts == {"connection refused"}
RaiseR(text) == [kind |-> "raise", text |-> text]
OkR(body) == [kind |-> "ok", body |-> body]
Raises == {RaiseR(e) : e \in ExcTexts}

\* the `password` parameter; the appliance may repeat the credential it was
\* given in the text of an exception or in a body it returns
Passwords == {"hunter2"}
Leaks == {RaiseR(p) : p \in Passwords}
LeakBodies == {OkR([data |-> p]) : p \in Passwords}

\* a mutating call: success, structured failure, body without a success
\* flag, or an exception
MutResps ==
    {OkR([success |-> TRUE]),
     OkR([success |-> FALSE, error |-> "rejected"]),
     OkR([took |-> "1ms"])} \cup Raises \cup Leaks

\* a read call: a body (no success flag in it, or success false), or an
\* exception
ReadResps ==
    {OkR([data |-> "payload"]),
     OkR([success |-> FALSE, error |-> "rejected"])}
    \cup Raises \cup Leaks \cup LeakBodies

NoResp == OkR([none |-> TRUE])
Call(op, entry, resp) == [op |-> op, entry |-> entry, resp |-> resp]

Modules ==
    {"actions", "config_management", "dns_control", "domain_management",
     "metrics", "network_info", "ftl_info"}

----------------------------------------------------------------------------
(* Argument specifications: module_args of each main() *)

ActionsChoices == {"flush_arp", "flush_logs", "run_gravity", "restart_dns"}
ConfigChoices == {"get", "update", "export", "import", "add_item", "delete_item"}
DnsChoices == {"enable", "disable", "status"}
MetricsChoices ==
    {"summary", "query_types", "top_clients", "top_domains", "upstreams",
     "recent_blocked", "history", "history_clients", "queries",
     "query_suggestions"}
NetworkChoices == {"network_info", "network_devices"}

\* the modules that take an operation selector (action, metric_type,
\* info_type); domain_management and ftl_info take none
HasSelector(m) ==
    m \in {"actions", "config_management", "dns_control", "metrics",
           "network_info"}

Choices(m) ==
    CASE m = "actions" -> ActionsChoices
      [] m = "config_management" -> ConfigChoices
      [] m = "dns_control" -> DnsChoices
      [] m = "metrics" -> MetricsChoices
      [] m = "network_info" -> NetworkChoices
      [] OTHER -> {""}

\* an argument_spec that declares no `choices` for the selector
ArgSpecNoChoices(m, selector) == TRUE

\* AnsibleModule(argument_spec=module_args, ...): a value outside `choices`
\* is rejected by the constructor
ArgSpecOK(m, selector) == HasSelector(m) => selector \in Choices(m)

\* result = dict(...) at the top of each main()
EmptyDict == [k \in {} |-> TRUE]
InitResult(m) ==
    CASE m \in {"actions", "config_management"} ->
           [changed |-> FALSE, action_performed |-> "", success |-> FALSE,
            response |-> EmptyDict]
      [] m = "dns_control" -> [changed |-> FALSE, action_performed |-> ""]
      [] m = "domain_management" ->
           [changed |-> FALSE, domains |-> <<>>, results |-> <<>>]
      [] m = "metrics" ->
           [success |-> FALSE, metric_type |-> "", data |-> EmptyDict,
            error |-> ""]
      [] m = "network_info" ->
           [success |-> FALSE, info_type |-> "", data |-> EmptyDict,
            error |-> ""]
      [] m = "ftl_info" ->
           [success |-> FALSE, data |-> EmptyDict, error |-> ""]

\* the assignments made to `result` before the try block
ResultBeforeTry(m, selector) ==
    CASE m \in {"actions", "config_management"} ->
           [InitResult(m) EXCEPT !.action_performed = selector]
      [] m = "metrics" -> [InitResult(m) EXCEPT !.metric_type = selector]
      [] m = "network_info" -> [InitResult(m) EXCEPT !.info_type = selector]
      [] OTHER -> InitResult(m)

\* a validation that tests `is None` instead of the truth value, so that an
\* empty string or an empty dict passes
ConfigValidateNoneOnly(action, p) ==
    IF action \in {"add_item", "delete_item"}
       /\ (p.element = None \/ p.value = None)
    THEN <<"Action ", action, " requires both element and value parameters">>
    ELSE IF action = "update" /\ p.config_changes = None
    THEN <<"Action update requires config_changes parameter">>
    ELSE IF action = "export" /\ p.export_path = None
    THEN <<"Action export requires export_path parameter">>
    ELSE IF action = "import" /\ p.import_path = None
    THEN <<"Action import requires import_path parameter">>
    ELSE <<>>

\* config_management: "Validate required parameters for specific actions";
\* the message of the fail_json, or <<>> when the parameters pass
ConfigValidate(action, p) ==
    IF action \in {"add_item", "delete_item"}
       /\ (~Truthy(p.element) \/ ~Truthy(p.value))
    THEN <<"Action ", action, " requires both element and value parameters">>
    ELSE IF action = "update" /\ ~Truthy(p.config_changes)
    THEN <<"Action update requires config_changes parameter">>
    ELSE IF action = "export" /\ ~Truthy(p.export_path)
    THEN <<"Action export requires export_path parameter">>
    ELSE IF action = "import" /\ ~Truthy(p.import_path)
    THEN <<"Action import requires import_path parameter">>
    ELSE <<>>

ExitJson(payload) == [kind |-> "exit_json", payload |-> payload]
FailJson(payload) == [kind |-> "fail_json", payload |-> payload]
NoOut == [kind |-> "none", payload |-> EmptyDict]

\* module_args that does not mark the password no_log
NoLogValuesNone(m, password) == {}

\* password=dict(type='str', required=True, no_log=True), in the
\* module_args of every module: the values AnsibleModule keeps out of what
\* exit_json and fail_json return
NoLogValues(m, password) == {password}

\* exit_json / fail_json replace a no_log value in every string they return
RemoveText(t, secrets) ==
    IF t \in secrets THEN "VALUE_SPECIFIED_IN_NO_LOG_PARAMETER" ELSE t

\* the keys of a response dict that hold a text
TextKeys == {"error", "data", "took", "archive"}

RemoveDict(d, secrets) ==
    [k \in DOMAIN d |->
       IF k \in TextKeys THEN RemoveText(d[k], secrets) ELSE d[k]]

\* the same over the keyword arguments of exit_json / fail_json: msg and
\* error are texts, response, data and config are dicts from the client,
\* results is the list of per-entry records
RemoveValues(payload, secrets) ==
    [k \in DOMAIN payload |->
       CASE k = "msg" ->
              [i \in DOMAIN payload[k] |-> RemoveText(payload[k][i], secrets)]
         [] k = "error" -> RemoveText(payload[k], secrets)
         [] k \in {"response", "data", "config"} ->
              RemoveDict(payload[k], secrets)
         [] k = "results" ->
              [i \in DOMAIN payload[k] |->
                 IF "response" \in DOMAIN payload[k][i]
                 THEN [payload[k][i] EXCEPT
                         !.response = RemoveDict(@, secrets)]
                 ELSE payload[k][i]]
         [] OTHER -> payload[k]]

\* what the caller of the module receives from a terminal call o
Returned(o, m, password) ==
    [o EXCEPT !.payload = RemoveValues(@, NoLogValues(m, password))]

----------------------------------------------------------------------------
(* The inputs of an invocation *)

Selectors(m) == IF HasSelector(m) THEN Choices(m) \cup {"bogus"} ELSE {""}

\* dns_control: timer=dict(type='int', required=False, default=None)
Timers(m) ==
    IF m = "dns_control" THEN {None} \cup {PyInt(n) : n \in 0..MaxTimer}
    ELSE {None}

StrVals(s) == {None, PyStr(""), PyStr(s)}
NoParams ==
    [element |-> None, value |-> None, config_changes |-> None,
     export_path |-> None, import_path |-> None, config_section |-> None,
     count |-> None]

\* config_management: the parameters the requested action reads; the
\* others are left at their default (None).  metrics: count, given or not
Params(m, selector) ==
    IF m = "metrics"
    THEN {[NoParams EXCEPT !.count = c] : c \in {None, PyInt(5)}}
    ELSE IF m # "config_management" THEN {NoParams}
    ELSE CASE selector \in {"add_item", "delete_item"} ->
                {[NoParams EXCEPT !.element = e, !.value = v] :
                    e \in StrVals("dns.upstreams"), v \in StrVals("8.8.8.8")}
           [] selector = "update" ->
                {[NoParams EXCEPT !.config_changes = c] :
                    c \in {None, PyDict({}), PyDict({"dns_bogus_priv"})}}
           [] selector = "export" ->
                {[NoParams EXCEPT !.export_path = x] :
                    x \in StrVals("/tmp/pihole-backup.tar.gz")}
           [] selector = "import" ->
                {[NoParams EXCEPT !.import_path = x] :
                    x \in StrVals("/tmp/pihole-backup.tar.gz")}
           [] selector = "get" ->
                {[NoParams EXCEPT !.config_section = x] :
                    x \in {None, PyStr("dns")}}
           [] OTHER -> {NoParams}

\* the domain names of the entries; entries on one name already differ in
\* state, and a batch may name it more than once
Domains == {"ads.example.com"}
DomainEntries ==
    [domain : Domains, domain_type : {"deny"}, kind : {"exact"},
     state : {"present", "absent"}]

\* domain_management: the `domains` list, duplicates allowed
Batches(m) ==
    IF m = "domain_management"
    THEN UNION {[1..n -> DomainEntries] : n \in 0..MaxBatch}
    ELSE {<<>>}

NoInv ==
    [module |-> "", selector |-> "", check_mode |-> FALSE, has_lib |-> TRUE,
     timer |-> None, params |-> NoParams, domains |-> <<>>, password |-> ""]

ApplianceStates ==
    [blocking : BOOLEAN, timer : 0..MaxTimer, domains : SUBSET Domains]

Init ==
    /\ pc = "idle"
    /\ inv = NoInv
    /\ result = EmptyDict
    /\ out = NoOut
    /\ calls = <<>>
    /\ loop = 0
    /\ mapping = EmptyDict
    /\ appliance \in ApplianceStates
    /\ prevDisable = FALSE

----------------------------------------------------------------------------
(* main() up to the try block *)

\* the except Exception handler that closes each main()
ExceptResult(m, r, text) ==
    IF m \in {"metrics", "network_info", "ftl_info"}
    THEN [r EXCEPT !.error = text]
    ELSE r

ExceptMsg(m, selector, text) ==
    CASE m = "actions" ->
           <<"Failed to perform action ", selector, ": ", text>>
      [] m = "config_management" ->
           <<"Failed to perform configuration action ", selector, ": ", text>>
      [] m = "dns_control" -> <<"Failed to control DNS blocking: ", text>>
      [] m = "domain_management" -> <<"Failed to manage domains: ", text>>
      [] m = "metrics" ->
           <<"Failed to retrieve metric ", selector, ": ", text>>
      [] m = "network_info" -> <<"Failed to retrieve ", selector, ": ", text>>
      [] m = "ftl_info" -> <<"Failed to retrieve FTL information: ", text>>

Except(m, selector, r, text) ==
    FailJson(Kw([msg |-> ExceptMsg(m, selector, text)],
                ExceptResult(m, r, text)))

Invoke(m, selector, check_mode, has_lib, timer, params, domains, password) ==
    /\ pc = "idle"
    /\ inv' = [module |-> m, selector |-> selector, check_mode |-> check_mode,
               has_lib |-> has_lib, timer |-> timer, params |-> params,
               domains |-> domains, password |-> password]
    /\ calls' = <<>>
    /\ loop' = 1
    /\ mapping' = EmptyDict
    /\ UNCHANGED <<appliance, prevDisable>>
    /\ IF ~ArgSpecOK(m, selector)
       THEN /\ result' = InitResult(m)
            /\ out' = Returned(FailJson([msg |-> <<"value of ", selector,
                                  " must be one of the choices">>]),
                                m, password)
            /\ pc' = "done"
       ELSE IF ~has_lib
       THEN /\ result' = InitResult(m)
            /\ out' = Returned(FailJson([msg |->
                          <<"The pihole6api Python library is required">>]),
                                m, password)
            /\ pc' = "done"
       ELSE IF m = "config_management"
               /\ ConfigValidate(selector, params) # <<>>
       THEN /\ result' = ResultBeforeTry(m, selector)
            /\ out' = Returned(FailJson([msg |->
                                  ConfigValidate(selector, params)]),
                                m, password)
            /\ pc' = "done"
       ELSE IF m = "domain_management" /\ domains = <<>>
       THEN /\ result' = ResultBeforeTry(m, selector)
            /\ out' = Returned(ExitJson(result'), m, password)
            /\ pc' = "done"
       ELSE /\ result' = ResultBeforeTry(m, selector)
            /\ out' = NoOut
            /\ pc' = "validated"

\* client = PiHole6Client(url, password), the first statement of the try
OpenClient(r) ==
    /\ pc = "validated"
    /\ calls' = Append(calls, Call("PiHole6Client", 0, r))
    /\ IF r.kind = "raise"
       THEN /\ out' = Returned(Except(inv.module, inv.selector, result,
                                       r.text),
                                inv.module, inv.password)
            /\ result' = ExceptResult(inv.module, result, r.text)
            /\ pc' = "done"
       ELSE /\ pc' = "open"
            /\ UNCHANGED <<result, out>>
    /\ UNCHANGED <<inv, loop, mapping, appliance, prevDisable>>

\* a close whose exception reaches the except Exception handler of main()
CloseOutcomeUnswallowed(m, selector, result0, r) ==
    IF r.kind = "raise" THEN Except(m, selector, result0, r.text)
    ELSE ExitJson(result0)

\* try: client.close_session() except: pass -- then, after the outer try,
\* module.exit_json(**result): what close_session did is not looked at
CloseOutcome(m, selector, result0, r) == ExitJson(result0)

CloseSession(r) ==
    /\ pc = "closing"
    /\ calls' = Append(calls, Call("close_session", 0, r))
    /\ out' = Returned(CloseOutcome(inv.module, inv.selector, result, r),
                     inv.module, inv.password)
    /\ pc' = "done"
    /\ UNCHANGED <<inv, result, loop, mapping, appliance, prevDisable>>

----------------------------------------------------------------------------
(* actions.py *)

\* a perform_action that does not read the success flag of the answer
perform_action_ignores_flag(action, r) ==
    IF action \in {"flush_arp", "flush_logs", "run_gravity", "restart_dns"}
    THEN [calls |-> <<Call(action, 0, r)>>,
          ret |-> IF r.kind = "raise"
                  THEN <<FALSE, [error |-> r.text]>>
                  ELSE <<TRUE, r.body>>]
    ELSE [calls |-> <<>>,
          ret |-> <<FALSE, [error |-> "Unknown action: " \o action]>>]

\* perform_action(client, action): the remote calls it makes and what it
\* returns, given what the remote call does
perform_action(action, r) ==
    IF action \in {"flush_arp", "flush_logs", "run_gravity", "restart_dns"}
    THEN [calls |-> <<Call(action, 0, r)>>,
          ret |-> IF r.kind = "raise"
                  THEN <<FALSE, [error |-> r.text]>>
                  ELSE <<Get(r.body, "success", FALSE), r.body>>]
    ELSE [calls |-> <<>>,
          ret |-> <<FALSE, [error |-> "Unknown action: " \o action]>>]

\* the try block of main() after the client is constructed, up to the
\* close of the session: the result dict, the terminal fail_json if one is
\* made, the remote calls made, and where main() continues
ActionsRun(action, check_mode, result0, r) ==
    IF ~check_mode
    THEN LET p == perform_action(action, r)
             success == p.ret[1]
             r1 == [result0 EXCEPT !.success = success, !.response = p.ret[2]]
         IN IF success
            THEN [result |-> [r1 EXCEPT !.changed = TRUE], out |-> NoOut,
                  calls |-> p.calls, pc |-> "closing"]
            ELSE [result |-> r1,
                  out |-> FailJson(Kw([msg |->
                            <<"Failed to perform action ", action>>], r1)),
                  calls |-> p.calls, pc |-> "done"]
    ELSE [result |-> [result0 EXCEPT
                        !.changed = TRUE,
                        !.success = TRUE,
                        !.response = [message |->
                                        <<"Would perform action: ", action>>]],
          out |-> NoOut, calls |-> <<>>, pc |-> "closing"]

ActionsBody(r) ==
    /\ pc = "open"
    /\ inv.module = "actions"
    /\ inv.check_mode => r = OkR([success |-> TRUE])
    /\ LET run == ActionsRun(inv.selector, inv.check_mode, result, r)
       IN /\ result' = run.result
          /\ out' = Returned(run.out, inv.module, inv.password)
          /\ calls' = calls \o run.calls
          /\ pc' = run.pc
    /\ UNCHANGED <<inv, loop, mapping, appliance, prevDisable>>

----------------------------------------------------------------------------
(* dns_control.py *)

\* a status read that drops the timer the appliance reports
get_blocking_status_no_timer(r) ==
    IF r.kind = "raise"
    THEN <<None, None, [error |-> r.text]>>
    ELSE <<Get(r.body, "blocking", PyBool(FALSE)), PyInt(0), r.body>>

\* a status read that answers the defaults when the call raises
get_blocking_status_defaults_on_error(r) ==
    IF r.kind = "raise"
    THEN <<PyBool(FALSE), PyInt(0), [error |-> r.text]>>
    ELSE <<Get(r.body, "blocking", PyBool(FALSE)),
           Get(r.body, "timer", PyInt(0)), r.body>>

\* get_blocking_status(client): (current_blocking, current_timer, result)
get_blocking_status(r) ==
    IF r.kind = "raise"
    THEN <<None, None, [error |-> r.text]>>
    ELSE <<Get(r.body, "blocking", PyBool(FALSE)),
           Get(r.body, "timer", PyInt(0)), r.body>>

\* set_blocking_status(client, blocking, timer)
set_blocking_status(blocking, timer, s) ==
    [calls |-> <<Call("set_blocking_status", 0, s)>>,
     ret |-> IF s.kind = "raise"
             THEN <<FALSE, [error |-> s.text]>>
             ELSE <<Get(s.body, "success", FALSE), s.body>>]

\* the enable branch without its idempotence test
NeedsEnableAlways(current_blocking, current_timer) == TRUE

\* `if not current_blocking or (current_timer > 0):` "Need to enable blocking"
NeedsEnable(current_blocking, current_timer) ==
    ~current_blocking \/ current_timer > 0

\* a disable branch that mirrors the test of the enable branch
NeedsDisableOrTimer(current_blocking, current_timer) ==
    current_blocking \/ current_timer > 0

\* `if current_blocking:` "Need to disable blocking"
NeedsDisable(current_blocking, current_timer) == current_blocking

\* the assignments of both the performed and the check-mode change
DnsChanged(r, blocking, timer) ==
    LET r1 == [Put(r, "blocking", blocking) EXCEPT !.changed = TRUE]
    IN IF Truthy(timer) THEN Put(r1, "timer", timer.v) ELSE r1

\* whether the enable / disable branch calls set_blocking_status
DnsPerforms(check_mode) == ~check_mode

\* the enable / disable branch once the change is needed
DnsChange(action, timer, check_mode, r2, blocking, s, gcalls) ==
    IF DnsPerforms(check_mode)
    THEN LET p == set_blocking_status(blocking, timer, s)
         IN IF p.ret[1]
            THEN [result |-> DnsChanged(r2, blocking, timer), out |-> NoOut,
                  calls |-> gcalls \o p.calls, pc |-> "closing"]
            ELSE [result |-> r2,
                  out |-> FailJson(Kw([msg |-> <<"Failed to ", action,
                                                 " blocking">>,
                                       response |-> p.ret[2]], r2)),
                  calls |-> gcalls \o p.calls, pc |-> "done"]
    ELSE [result |-> DnsChanged(r2, blocking, timer), out |-> NoOut,
          calls |-> gcalls, pc |-> "closing"]

\* the try block of main() after the client is constructed
DnsRun(action, timer, check_mode, result0, r, s) ==
    LET g == get_blocking_status(r)
        current_blocking == g[1]
        current_timer == g[2]
        gcalls == <<Call("get_blocking_status", 0, r)>>
    IN IF current_blocking = None
       THEN [result |-> result0,
             out |-> FailJson(Kw([msg |->
                       <<"Failed to get current blocking status">>], result0)),
             calls |-> gcalls, pc |-> "done"]
       ELSE
       LET r1 == Put(result0, "blocking", current_blocking.v)
       IN IF current_timer = None
          \* `current_timer > 0` raises TypeError, caught by except Exception
          THEN [result |-> r1,
                out |-> Except("dns_control", action, r1,
                               "'>' not supported between NoneType and int"),
                calls |-> gcalls, pc |-> "done"]
          ELSE
          LET r2 == IF current_timer.v > 0
                    THEN Put(r1, "timer", current_timer.v) ELSE r1
              r3 == [r2 EXCEPT !.action_performed = action]
              idle == [result |-> r3, out |-> NoOut, calls |-> gcalls,
                       pc |-> "closing"]
          IN CASE action = "status" -> idle
               [] action = "enable" ->
                    IF NeedsEnable(current_blocking.v, current_timer.v)
                    THEN DnsChange(action, timer, check_mode, r3, TRUE, s,
                                   gcalls)
                    ELSE idle
               [] action = "disable" ->
                    IF NeedsDisable(current_blocking.v, current_timer.v)
                    THEN DnsChange(action, timer, check_mode, r3, FALSE, s,
                                   gcalls)
                    ELSE idle
               [] OTHER -> [idle EXCEPT !.result = r2]

\* what the appliance answers to get_blocking_status: its state, where a
\* stopped timer is reported as 0, as null or not at all and the blocking
\* value may be null or missing; or the call raises
StatusResps(a) ==
    LET bs == {[blocking |-> PyBool(a.blocking)], [blocking |-> None],
               EmptyDict}
        ts == IF a.timer > 0 THEN {[timer |-> PyInt(a.timer)]}
              ELSE {[timer |-> PyInt(0)], [timer |-> None], EmptyDict}
    IN {OkR(b @@ t) : b \in bs, t \in ts} \cup Raises

HasCall(cs, op) == \E i \in 1..Len(cs) : cs[i].op = op

\* the appliance after set_blocking_status(blocking, timer) took effect
Blocked(a, blocking, timer) ==
    [a EXCEPT !.blocking = blocking,
              !.timer = IF Truthy(timer) THEN timer.v ELSE 0]

\* whether a mutating call with answer s can have taken effect: reported
\* success did, reported failure did not, anything else may have
MayApply(s, applied) ==
    IF s.kind = "ok" /\ "success" \in DOMAIN s.body
    THEN applied = s.body.success
    ELSE applied \in BOOLEAN

DnsBody(r, s, applied) ==
    /\ pc = "open"
    /\ inv.module = "dns_control"
    /\ r \in StatusResps(appliance)
    /\ LET run == DnsRun(inv.selector, inv.timer, inv.check_mode, result, r, s)
           made == HasCall(run.calls, "set_blocking_status")
       IN /\ IF made THEN MayApply(s, applied)
                     ELSE s = OkR([success |-> TRUE]) /\ ~applied
          /\ result' = run.result
          /\ out' = Returned(run.out, inv.module, inv.password)
          /\ calls' = calls \o run.calls
          /\ pc' = run.pc
          /\ appliance' = IF applied
                          THEN Blocked(appliance, inv.selector = "enable",
                                       inv.timer)
                          ELSE appliance
    /\ UNCHANGED <<inv, loop, mapping, prevDisable>>

----------------------------------------------------------------------------
(* config_management.py *)

\* get_config(client, config_section, detailed)
get_config(config_section, r) ==
    [calls |-> <<Call(IF Truthy(config_section) THEN "get_config_section"
                      ELSE "get_config", 0, r)>>,
     ret |-> IF r.kind = "raise" THEN <<FALSE, [error |-> r.text]>>
             ELSE <<TRUE, r.body>>]

\* update_config(client, config_changes)
update_config(r) ==
    [calls |-> <<Call("update_config", 0, r)>>,
     ret |-> IF r.kind = "raise" THEN <<FALSE, [error |-> r.text]>>
             ELSE <<Get(r.body, "success", FALSE), r.body>>]

\* add_config_item(client, element, value)
add_config_item(r) ==
    [calls |-> <<Call("add_config_item", 0, r)>>,
     ret |-> IF r.kind = "raise" THEN <<FALSE, [error |-> r.text]>>
             ELSE <<Get(r.body, "success", FALSE), r.body>>]

\* delete_config_item(client, element, value)
delete_config_item(r) ==
    [calls |-> <<Call("delete_config_item", 0, r)>>,
     ret |-> IF r.kind = "raise" THEN <<FALSE, [error |-> r.text]>>
             ELSE <<Get(r.body, "success", FALSE), r.body>>]

\* export_config(client, export_path): export_settings(), then the file is
\* written; file_ok says whether open()/write() succeed
export_config(export_path, r, file_ok) ==
    IF r.kind = "raise"
    THEN [calls |-> <<Call("export_settings", 0, r)>>,
          ret |-> <<FALSE, [error |-> r.text]>>]
    ELSE IF ~file_ok
    THEN [calls |-> <<Call("export_settings", 0, r)>>,
          ret |-> <<FALSE, [error |-> "Permission denied"]>>]
    ELSE [calls |-> <<Call("export_settings", 0, r),
                      Call("write_file", 0, NoResp)>>,
          ret |-> <<TRUE, [message |-> <<"Configuration exported to ",
                                         export_path.v>>]>>]

\* import_config(client, import_path, import_options); file_ok says
\* whether os.path.exists(import_path)
import_config(import_path, r, file_ok) ==
    IF ~file_ok
    THEN [calls |-> <<>>,
          ret |-> <<FALSE, [error |-> "Import file not found: "
                                        \o import_path.v]>>]
    ELSE [calls |-> <<Call("import_settings", 0, r)>>,
          ret |-> IF r.kind = "raise" THEN <<FALSE, [error |-> r.text]>>
                  ELSE <<Get(r.body, "success", FALSE), r.body>>]

\* the helper each mutating action calls when not in check mode
ConfigOp(action, p, r, file_ok) ==
    CASE action = "update" -> update_config(r)
      [] action = "add_item" -> add_config_item(r)
      [] action = "delete_item" -> delete_config_item(r)
      [] action = "export" -> export_config(p.export_path, r, file_ok)
      [] action = "import" -> import_config(p.import_path, r, file_ok)

\* the `response` each mutating action reports in check mode
ConfigWould(action, p) ==
    CASE action = "update" ->
           <<"Would update configuration with: ", p.config_changes.v>>
      [] action = "add_item" ->
           <<"Would add ", p.value.v, " to ", p.element.v>>
      [] action = "delete_item" ->
           <<"Would remove ", p.value.v, " from ", p.element.v>>
      [] action = "export" ->
           <<"Would export configuration to ", p.export_path.v>>
      [] action = "import" ->
           <<"Would import configuration from ", p.import_path.v>>

\* the guard dropped: the helper is called in check mode too
ConfigPerformsAlways(action, check_mode) == TRUE

\* whether a mutating action calls its helper: `if not module.check_mode:`
ConfigPerforms(action, check_mode) == ~check_mode

\* `if not result['success'] and action != 'get':` fail_json
ConfigFails(action, success) == ~success /\ action # "get"

\* the try block of main() after the client is constructed
ConfigRun(action, p, check_mode, result0, r, file_ok) ==
    LET branch ==
          IF action = "get"
          THEN LET g == get_config(p.config_section, r)
                   r1 == [result0 EXCEPT !.success = g.ret[1],
                                         !.response = g.ret[2]]
               IN [result |-> IF g.ret[1] THEN Put(r1, "config", g.ret[2])
                              ELSE r1,
                   calls |-> g.calls]
          ELSE IF action \notin ConfigChoices
          THEN [result |-> result0, calls |-> <<>>]
          ELSE IF ConfigPerforms(action, check_mode)
          THEN LET o == ConfigOp(action, p, r, file_ok)
                   r1 == [result0 EXCEPT !.success = o.ret[1],
                                         !.response = o.ret[2]]
                   r2 == IF o.ret[1] THEN [r1 EXCEPT !.changed = TRUE] ELSE r1
               IN [result |-> IF o.ret[1] /\ action = "export"
                              THEN Put(r2, "export_path", p.export_path.v)
                              ELSE r2,
                   calls |-> o.calls]
          ELSE LET r1 == [result0 EXCEPT
                            !.changed = TRUE,
                            !.success = TRUE,
                            !.response = [message |-> ConfigWould(action, p)]]
               IN [result |-> IF action = "export"
                              THEN Put(r1, "export_path", p.export_path.v)
                              ELSE r1,
                   calls |-> <<>>]
    IN IF ConfigFails(action, branch.result.success)
       THEN [result |-> branch.result,
             out |-> FailJson(Kw([msg |-> <<"Failed to perform action ",
                                            action>>], branch.result)),
             calls |-> branch.calls, pc |-> "done"]
       ELSE [result |-> branch.result, out |-> NoOut, calls |-> branch.calls,
             pc |-> "closing"]

\* export_settings() returns the teleporter archive
ExportResps == {OkR([archive |-> "bytes"])} \cup Raises \cup Leaks

\* what the remote call of a config_management action can answer
ConfigResps(action) ==
    CASE action = "get" -> ReadResps
      [] action = "export" -> ExportResps
      [] OTHER -> MutResps

ConfigBody(r, file_ok) ==
    /\ pc = "open"
    /\ inv.module = "config_management"
    /\ r \in ConfigResps(inv.selector)
    /\ LET run == ConfigRun(inv.selector, inv.params, inv.check_mode, result,
                            r, file_ok)
       IN /\ file_ok \/ inv.selector \in {"export", "import"}
          /\ file_ok \/ ~inv.check_mode
          /\ run.calls = <<>> => r \in Raises
          /\ result' = run.result
          /\ out' = Returned(run.out, inv.module, inv.password)
          /\ calls' = calls \o run.calls
          /\ pc' = run.pc
    /\ UNCHANGED <<inv, loop, mapping, appliance, prevDisable>>

----------------------------------------------------------------------------
(* metrics.py, network_info.py, ftl_info.py *)

\* the client method get_metric calls for each metric_type
MetricMethod(metric_type) ==
    CASE metric_type = "summary" -> "get_stats_summary"
      [] metric_type = "query_types" -> "get_stats_query_types"
      [] metric_type = "top_clients" -> "get_stats_top_clients"
      [] metric_type = "top_domains" -> "get_stats_top_domains"
      [] metric_type = "upstreams" -> "get_stats_upstreams"
      [] metric_type = "recent_blocked" -> "get_stats_recent_blocked"
      [] metric_type = "history" -> "get_history"
      [] metric_type = "history_clients" -> "get_history_clients"
      [] metric_type = "queries" -> "get_queries"
      [] metric_type = "query_suggestions" -> "get_query_suggestions"

\* the keyword arguments get_metric passes to that method, read from the
\* params main() collected (the parameters that are not None; clients and
\* length default to 20 and 100)
MetricKwargs(metric_type, params) ==
    CASE metric_type \in {"top_clients", "top_domains"} ->
           [blocked |-> None, count |-> params.count]
      [] metric_type = "recent_blocked" -> [count |-> params.count]
      [] metric_type = "history_clients" -> [clients |-> PyInt(20)]
      [] metric_type = "queries" ->
           [length |-> PyInt(100), from_ts |-> None, until_ts |-> None,
            upstream |-> None, domain |-> None, client |-> None,
            cursor |-> None]
      [] OTHER -> EmptyDict

\* get_metric(client, metric_type, params)
get_metric(metric_type, params, r) ==
    IF metric_type \in
         {"summary", "query_types", "top_clients", "top_domains", "upstreams",
          "recent_blocked", "history", "history_clients", "queries",
          "query_suggestions"}
    THEN [calls |-> <<Call(MetricMethod(metric_type), 0, r)
                      @@ [args |-> MetricKwargs(metric_type, params)]>>,
          ret |-> IF r.kind = "raise" THEN <<FALSE, [error |-> r.text]>>
                  ELSE <<TRUE, r.body>>]
    ELSE [calls |-> <<>>,
          ret |-> <<FALSE, [error |-> "Unknown metric type: "
                                        \o metric_type]>>]

\* get_network_info(client, info_type)
get_network_info(info_type, r) ==
    IF info_type \in {"network_info", "network_devices"}
    THEN [calls |-> <<Call(IF info_type = "network_info"
                           THEN "get_network_info"
                           ELSE "get_network_devices", 0, r)>>,
          ret |-> IF r.kind = "raise" THEN <<FALSE, [error |-> r.text]>>
                  ELSE <<TRUE, r.body>>]
    ELSE [calls |-> <<>>,
          ret |-> <<FALSE, [error |-> "Unknown info type: " \o info_type]>>]

\* get_ftl_info(client)
get_ftl_info(r) ==
    [calls |-> <<Call("get_ftl_info", 0, r)>>,
     ret |-> IF r.kind = "raise" THEN <<FALSE, [error |-> r.text]>>
             ELSE <<TRUE, r.body>>]

\* a try block that records the error but goes on to the normal exit
ReadRunFallsThrough(msg, result0, g) ==
    LET r1 == [result0 EXCEPT !.success = g.ret[1]]
    IN IF g.ret[1]
       THEN [result |-> [r1 EXCEPT !.data = g.ret[2]], out |-> NoOut,
             calls |-> g.calls, pc |-> "closing"]
       ELSE [result |-> [r1 EXCEPT !.error =
                                     Get(g.ret[2], "error", "Unknown error")],
             out |-> NoOut, calls |-> g.calls, pc |-> "closing"]

\* the try block the three read-only main() share: success, data = ...;
\* on failure result['error'] is set and fail_json is called
ReadRun(msg, result0, g) ==
    LET r1 == [result0 EXCEPT !.success = g.ret[1]]
    IN IF g.ret[1]
       THEN [result |-> [r1 EXCEPT !.data = g.ret[2]], out |-> NoOut,
             calls |-> g.calls, pc |-> "closing"]
       ELSE LET r2 == [r1 EXCEPT !.error =
                                   Get(g.ret[2], "error", "Unknown error")]
            IN [result |-> r2, out |-> FailJson(Kw([msg |-> msg], r2)),
                calls |-> g.calls, pc |-> "done"]

MetricsRun(metric_type, params, result0, r) ==
    ReadRun(<<"Failed to retrieve metric ", metric_type>>, result0,
            get_metric(metric_type, params, r))

NetworkRun(info_type, result0, r) ==
    ReadRun(<<"Failed to retrieve ", info_type>>, result0,
            get_network_info(info_type, r))

FtlRun(result0, r) ==
    ReadRun(<<"Failed to retrieve FTL information">>, result0,
            get_ftl_info(r))

ReadBody(r) ==
    /\ pc = "open"
    /\ inv.module \in {"metrics", "network_info", "ftl_info"}
    /\ LET run == CASE inv.module = "metrics" ->
                         MetricsRun(inv.selector, inv.params, result, r)
                    [] inv.module = "network_info" ->
                         NetworkRun(inv.selector, result, r)
                    [] inv.module = "ftl_info" -> FtlRun(result, r)
       IN /\ result' = run.result
          /\ out' = Returned(run.out, inv.module, inv.password)
          /\ calls' = calls \o run.calls
          /\ pc' = run.pc
    /\ UNCHANGED <<inv, loop, mapping, appliance, prevDisable>>

----------------------------------------------------------------------------
(* domain_management.py *)

\* get_group_name_to_id_mapping(client)
get_group_name_to_id_mapping(r) ==
    IF r.kind = "raise" THEN EmptyDict
    ELSE LET groups == Get(r.body, "groups", <<>>)
         IN [n \in {groups[i].name : i \in 1..Len(groups)} |->
               (CHOOSE i \in 1..Len(groups) : groups[i].name = n)]

\* an existence check that assumes the entry exists when it cannot tell
domain_exists_assumes_listed(r) ==
    IF r.kind = "raise" THEN TRUE ELSE Get(r.body, "success", TRUE)

\* domain_exists(client, domain, domain_type, kind)
domain_exists(r) ==
    IF r.kind = "raise" THEN FALSE ELSE Get(r.body, "success", FALSE)

\* add_domain(client, domain_config, group_mapping)
add_domain(i, r) ==
    [calls |-> <<Call("add_domain", i, r)>>,
     ret |-> IF r.kind = "raise" THEN <<FALSE, [error |-> r.text]>>
             ELSE <<Get(r.body, "success", FALSE), r.body>>]

\* an update that finds nothing to change and makes no call
update_domain_skips_call(i, r) ==
    [calls |-> <<>>, ret |-> <<FALSE, EmptyDict>>]

\* update_domain(client, domain_config, group_mapping)
update_domain(i, r) ==
    [calls |-> <<Call("update_domain", i, r)>>,
     ret |-> IF r.kind = "raise" THEN <<FALSE, [error |-> r.text]>>
             ELSE <<Get(r.body, "success", FALSE), r.body>>]

\* delete_domain(client, domain_config)
delete_domain(i, r) ==
    [calls |-> <<Call("delete_domain", i, r)>>,
     ret |-> IF r.kind = "raise" THEN <<FALSE, [error |-> r.text]>>
             ELSE <<Get(r.body, "success", FALSE), r.body>>]

\* domain_result = {...} at the top of the loop body
DomainResult(domain_config) ==
    [domain |-> domain_config.domain,
     domain_type |-> domain_config.domain_type,
     kind |-> domain_config.kind,
     state |-> domain_config.state,
     changed |-> FALSE,
     success |-> FALSE]

\* success, response = <helper>(...) and the assignments that follow it
DomainPerformed(domain_result, o) ==
    LET d1 == Put(Put(domain_result, "success", o.ret[1]),
                  "response", o.ret[2])
    IN [domain_result |-> IF o.ret[1] THEN [d1 EXCEPT !.changed = TRUE]
                          ELSE d1,
        changed |-> o.ret[1], calls |-> o.calls]

\* the check-mode branch of "Add new domain" and "Delete domain"
DomainWould(domain_result) ==
    [domain_result |-> [domain_result EXCEPT !.changed = TRUE],
     changed |-> TRUE, calls |-> <<>>]

\* the check-mode side of "Update existing domain": there is none
DomainWouldUpdate(domain_result) ==
    [domain_result |-> domain_result, changed |-> FALSE, calls |-> <<>>]

\* one iteration of `for domain_config in domains:`, entry number i: the
\* record appended to results, whether result['changed'] is set, and the
\* remote calls made
DomainStep(i, domain_config, check_mode, e, r) ==
    LET domain_result == DomainResult(domain_config)
        exists == domain_exists(e)
        ecalls == <<Call("get_domain", i, e)>>
        none == [domain_result |-> domain_result, changed |-> FALSE,
                 calls |-> <<>>]
        branch ==
          IF domain_config.state = "present"
          THEN IF exists
               THEN IF ~check_mode
                    THEN DomainPerformed(domain_result, update_domain(i, r))
                    ELSE DomainWouldUpdate(domain_result)
               ELSE IF ~check_mode
                    THEN DomainPerformed(domain_result, add_domain(i, r))
                    ELSE DomainWould(domain_result)
          ELSE IF domain_config.state = "absent"
          THEN IF exists
               THEN IF ~check_mode
                    THEN DomainPerformed(domain_result, delete_domain(i, r))
                    ELSE DomainWould(domain_result)
               ELSE none
          ELSE none
    IN [branch EXCEPT !.calls = ecalls \o branch.calls]

\* a loop body that skips the record of an entry whose call failed
DomainAppendUnlessFailed(result0, domain_config, step) ==
    IF "response" \in DOMAIN step.domain_result
       /\ ~step.domain_result.success
    THEN result0
    ELSE [result0 EXCEPT
            !.changed = result0.changed \/ step.changed,
            !.domains = Append(result0.domains, domain_config.domain),
            !.results = Append(result0.results, step.domain_result)]

\* a loop body whose overall changed follows the latest entry only
DomainAppendLatestChanged(result0, domain_config, step) ==
    [result0 EXCEPT
       !.changed = step.changed,
       !.domains = Append(result0.domains, domain_config.domain),
       !.results = Append(result0.results, step.domain_result)]

\* result['changed'] = True in the branches, then
\* result['domains'].append(...) and result['results'].append(...)
DomainAppend(result0, domain_config, step) ==
    [result0 EXCEPT
       !.changed = result0.changed \/ step.changed,
       !.domains = Append(result0.domains, domain_config.domain),
       !.results = Append(result0.results, step.domain_result)]

\* a loop that breaks at the first entry whose call failed
DomainNextStopOnFailure(i, n, step) ==
    IF i = n \/ ("response" \in DOMAIN step.domain_result
                 /\ ~step.domain_result.success)
    THEN "closing" ELSE "loop"

\* `for domain_config in domains:` goes on to the next entry, whatever
\* the iteration did, and leaves the loop after the last one
DomainNext(i, n, step) == IF i = n THEN "closing" ELSE "loop"

\* what the appliance answers to get_groups
GroupResps ==
    {OkR([groups |-> <<[name |-> "Family Devices", id |-> 1]>>])} \cup Raises

\* what the appliance answers to get_domain: success for a listed entry,
\* a body without a success flag for an unlisted one; or the call raises
ExistsResps(a, domain) ==
    {IF domain \in a.domains THEN OkR([success |-> TRUE])
     ELSE OkR([domains |-> <<>>])} \cup Raises

\* what add_domain / update_domain / delete_domain can answer
DomainOpResps ==
    {OkR([success |-> TRUE]), OkR([success |-> FALSE, error |-> "rejected"])}
    \cup Raises \cup Leaks

\* the appliance's list after the calls of one iteration took effect
Listed(a, cs, domain) ==
    IF HasCall(cs, "add_domain")
    THEN [a EXCEPT !.domains = a.domains \cup {domain}]
    ELSE IF HasCall(cs, "delete_domain")
    THEN [a EXCEPT !.domains = a.domains \ {domain}]
    ELSE a

\* group_mapping = get_group_name_to_id_mapping(client)
DomainGroups(r) ==
    /\ pc = "open"
    /\ inv.module = "domain_management"
    /\ mapping' = get_group_name_to_id_mapping(r)
    /\ calls' = Append(calls, Call("get_groups", 0, r))
    /\ pc' = "loop"
    /\ UNCHANGED <<inv, result, out, loop, appliance, prevDisable>>

\* the body of `for domain_config in domains:` for the next entry
DomainEntry(e, r, applied) ==
    /\ pc = "loop"
    /\ loop <= Len(inv.domains)
    /\ LET domain_config == inv.domains[loop]
           step == DomainStep(loop, domain_config, inv.check_mode, e, r)
       IN /\ e \in ExistsResps(appliance, domain_config.domain)
          /\ IF Len(step.calls) > 1 THEN MayApply(r, applied)
             ELSE r = OkR([success |-> TRUE]) /\ ~applied
          /\ result' = DomainAppend(result, domain_config, step)
          /\ calls' = calls \o step.calls
          /\ appliance' = IF applied
                          THEN Listed(appliance, step.calls,
                                      domain_config.domain)
                          ELSE appliance
          /\ pc' = DomainNext(loop, Len(inv.domains), step)
    /\ loop' = loop + 1
    /\ UNCHANGED <<inv, out, mapping, prevDisable>>

----------------------------------------------------------------------------
(* The appliance, as far as the modules observe it *)

\* the temporary blocking change runs out: the timer counts down and, at
\* zero, blocking returns to the opposite state
Tick ==
    /\ pc = "idle"
    /\ appliance.timer > 0
    /\ appliance' =
         IF appliance.timer = 1
         THEN [appliance EXCEPT !.timer = 0, !.blocking = ~appliance.blocking]
         ELSE [appliance EXCEPT !.timer = appliance.timer - 1]
    /\ UNCHANGED <<pc, inv, result, out, calls, loop, mapping, prevDisable>>

\* main() has returned; the next task of the play may start
Finish ==
    /\ pc = "done"
    /\ pc' = "idle"
    /\ inv' = NoInv
    /\ result' = EmptyDict
    /\ out' = NoOut
    /\ calls' = <<>>
    /\ loop' = 0
    /\ mapping' = EmptyDict
    /\ prevDisable' =
         /\ inv.module = "dns_control"
         /\ inv.selector = "disable"
         /\ ~inv.check_mode
         /\ Truthy(inv.timer)
         /\ out.kind = "exit_json"
         /\ result.changed
    /\ UNCHANGED appliance

----------------------------------------------------------------------------

Next ==
    \/ \E m \in Modules :
         \E selector \in Selectors(m), check_mode \in BOOLEAN,
            has_lib \in BOOLEAN, timer \in Timers(m), d \in Batches(m) :
           \E p \in Params(m, selector), password \in Passwords :
             Invoke(m, selector, check_mode, has_lib, timer, p, d, password)
    \/ \E r \in {OkR(EmptyDict)} \cup Raises \cup Leaks : OpenClient(r)
    \/ \E r \in MutResps : ActionsBody(r)
    \/ \E r \in MutResps \cup ReadResps \cup ExportResps, file_ok \in BOOLEAN :
         ConfigBody(r, file_ok)
    \/ \E r \in ReadResps : ReadBody(r)
    \/ \E r \in GroupResps : DomainGroups(r)
    \/ \E e \in {OkR([success |-> TRUE]), OkR([domains |-> <<>>])} \cup Raises,
          r \in DomainOpResps, applied \in BOOLEAN :
         DomainEntry(e, r, applied)
    \/ \E r \in StatusResps(appliance), s \in MutResps, applied \in BOOLEAN :
         DnsBody(r, s, applied)
    \/ \E r \in {OkR(EmptyDict)} \cup Raises : CloseSession(r)
    \/ Tick
    \/ Finish

Spec == Init /\ [][Next]_vars

----------------------------------------------------------------------------
(* Vocabulary of the properties *)

\* the remote operations that change the appliance, and the write of the
\* export file
MutatingOps ==
    {"set_blocking_status", "flush_arp", "flush_logs", "run_gravity",
     "restart_dns", "update_config", "add_config_item", "delete_config_item",
     "import_settings", "add_domain", "update_domain", "delete_domain",
     "write_file"}

\* session open, the read-only remote operations, session close
HarmlessOps ==
    {"PiHole6Client", "close_session", "get_config", "get_config_section",
     "get_blocking_status", "get_groups", "get_domain", "get_network_info",
     "get_network_devices", "get_ftl_info"}
    \cup {MetricMethod(t) : t \in MetricsChoices}

CallsOf(op) == {i \in 1..Len(calls) : calls[i].op = op}
EntryCalls(op, j) ==
    {i \in 1..Len(calls) : calls[i].op = op /\ calls[i].entry = j}

\* the client was constructed
Opened == \E i \in CallsOf("PiHole6Client") : calls[i].resp.kind = "ok"

\* the module body has run (the try block reached its end or a fail_json)
BodyDone == pc \in {"closing", "done"} /\ Opened

\* a body the remote call returned that indicates failure: the success
\* flag is false or absent
IndicatesFailure(resp) ==
    resp.kind = "ok" /\ ~Get(resp.body, "success", FALSE)

----------------------------------------------------------------------------
(* C1: in check mode no module, whatever its selector, invokes a mutating  *)
(* remote operation or writes the export file; the only calls made are the *)
(* session open, read-only calls and the session close.                    *)
C1_CheckModeMutatesNothing ==
    inv.check_mode =>
        \A i \in 1..Len(calls) :
            calls[i].op \in HarmlessOps /\ calls[i].op \notin MutatingOps

\* a check-mode export ran to its exit and reported the export as a change
C1_Witness ==
    /\ pc = "done"
    /\ inv.check_mode
    /\ inv.module = "config_management"
    /\ inv.selector = "export"
    /\ out.kind = "exit_json"
    /\ out.payload.changed
    /\ Len(calls) = 2

----------------------------------------------------------------------------
(* C2: in check mode the reported `changed` is the one a non-check run     *)
(* would report against the same remote state when its remote calls        *)
(* succeed: overall for every module and, for domain_management, for every *)
(* entry.                                                                  *)
Succeeds == OkR([success |-> TRUE])

\* the answer of entry j's existence check
ExistsAnswer(j) == calls[CHOOSE i \in EntryCalls("get_domain", j) : TRUE].resp

\* the record a non-check run appends for entry j when its call succeeds
RealEntry(j) ==
    DomainStep(j, inv.domains[j], FALSE, ExistsAnswer(j), Succeeds)

\* `changed` of a non-check run of the same invocation whose mutating
\* call succeeds, the read calls answering as they did
RealChanged ==
    LET r0 == ResultBeforeTry(inv.module, inv.selector)
    IN CASE inv.module = "actions" ->
              ActionsRun(inv.selector, FALSE, r0, Succeeds).result.changed
         [] inv.module = "config_management" ->
              ConfigRun(inv.selector, inv.params, FALSE, r0,
                        IF inv.selector = "get" THEN calls[2].resp
                        ELSE IF inv.selector = "export"
                        THEN OkR([archive |-> "bytes"])
                        ELSE Succeeds, TRUE).result.changed
         [] inv.module = "dns_control" ->
              DnsRun(inv.selector, inv.timer, FALSE, r0, calls[2].resp,
                     Succeeds).result.changed
         [] inv.module = "domain_management" ->
              \E j \in 1..Len(inv.domains) : RealEntry(j).changed

C2_CheckModeChangedIsRealChanged ==
    (inv.check_mode /\ BodyDone /\ "changed" \in DOMAIN result)
    => /\ result.changed = RealChanged
       /\ inv.module = "domain_management" =>
            \A j \in 1..Len(inv.domains) :
                result.results[j].changed = RealEntry(j).domain_result.changed

----------------------------------------------------------------------------
(* C3: domain_management, given a batch of N entries (N >= 0, duplicates   *)
(* allowed), ends with exactly N records in `results` and N names in       *)
(* `domains`, in input order, each record with its own `success` and       *)
(* `changed` flags, also when the existence check or the add / update /    *)
(* delete call of some entries fails or raises.  (The batch is processed   *)
(* once the session is open; an empty batch needs none.)                   *)
C3_BatchYieldsNRecords ==
    (/\ inv.module = "domain_management"
     /\ pc = "done"
     /\ Opened \/ (inv.has_lib /\ inv.domains = <<>>))
    => /\ out.kind = "exit_json"
       /\ Len(out.payload.results) = Len(inv.domains)
       /\ Len(out.payload.domains) = Len(inv.domains)
       /\ \A j \in 1..Len(inv.domains) :
            /\ out.payload.domains[j] = inv.domains[j].domain
            /\ out.payload.results[j].domain = inv.domains[j].domain
            /\ out.payload.results[j].state = inv.domains[j].state
            /\ {"success", "changed"} \subseteq DOMAIN out.payload.results[j]

\* entry j's add / update / delete call, if it was made
OpCalls(j) ==
    EntryCalls("add_domain", j) \cup EntryCalls("update_domain", j)
    \cup EntryCalls("delete_domain", j)

\* entry j's existence check raised / its operation failed or raised
CheckRaised(j) ==
    \E i \in EntryCalls("get_domain", j) : calls[i].resp.kind = "raise"
OpFailed(j) ==
    \E i \in OpCalls(j) :
        calls[i].resp.kind = "raise" \/ IndicatesFailure(calls[i].resp)

\* a full batch ended in which an existence check raised, one operation
\* raised and another succeeded
C3_Witness ==
    /\ pc = "done"
    /\ inv.module = "domain_management"
    /\ ~inv.check_mode
    /\ Len(inv.domains) = MaxBatch
    /\ \E j \in 1..Len(inv.domains) : CheckRaised(j)
    /\ \E j \in 1..Len(inv.domains) :
         \E i \in OpCalls(j) : calls[i].resp.kind = "raise"
    /\ \E j \in 1..Len(inv.domains) : out.payload.results[j].success

----------------------------------------------------------------------------
(* C4: in domain_management the failure (structured failure or exception)  *)
(* of the remote operation for an entry never keeps the existence check    *)
(* and the required operation of a later entry from being attempted, and   *)
(* never changes the flags already recorded for earlier entries.           *)

\* the operation entry j requires, given the answer of its existence check
RequiredOp(j) ==
    LET exists == domain_exists(ExistsAnswer(j))
    IN IF inv.domains[j].state = "present"
       THEN IF exists THEN "update_domain" ELSE "add_domain"
       ELSE IF exists THEN "delete_domain" ELSE "none"

Attempted(j) ==
    /\ EntryCalls("get_domain", j) # {}
    /\ (~inv.check_mode /\ RequiredOp(j) # "none")
         => EntryCalls(RequiredOp(j), j) # {}

AllAttempted ==
    (inv.module = "domain_management" /\ BodyDone)
    => \A j \in 1..Len(inv.domains) : Attempted(j)

RecordsKept ==
    (inv.module = "domain_management" /\ inv' = inv)
    => /\ Len(result'.results) >= Len(result.results)
       /\ \A j \in 1..Len(result.results) :
            result'.results[j] = result.results[j]

C4_FailureDoesNotAbort == []AllAttempted /\ [][RecordsKept]_vars

\* a batch ended whose first entry's operation failed and whose last
\* entry's operation was called and succeeded
C4_Witness ==
    /\ pc = "done"
    /\ inv.module = "domain_management"
    /\ Len(inv.domains) = MaxBatch
    /\ OpFailed(1)
    /\ \E i \in OpCalls(MaxBatch) :
         calls[i].resp.kind = "ok" /\ ~IndicatesFailure(calls[i].resp)
    /\ ~out.payload.results[1].success
    /\ out.payload.results[MaxBatch].success

----------------------------------------------------------------------------
(* C5: dns_control enable, when the appliance reports blocking enabled and *)
(* timer 0, makes no set_blocking_status call and exits with changed=false *)
(* and blocking=true, in check and non-check mode, whatever the timer      *)
(* parameter.                                                              *)
ReportsEnabledNoTimer(resp) ==
    /\ resp.kind = "ok"
    /\ Get(resp.body, "blocking", None) = PyBool(TRUE)
    /\ Get(resp.body, "timer", None) = PyInt(0)

C5_EnableWhenEnabledIsNoOp ==
    (/\ inv.module = "dns_control"
     /\ inv.selector = "enable"
     /\ BodyDone
     /\ ReportsEnabledNoTimer(calls[2].resp))
    => /\ CallsOf("set_blocking_status") = {}
       /\ pc = "closing" \/ out.kind = "exit_json"
       /\ result.changed = FALSE
       /\ result.blocking = TRUE
       /\ pc = "done" =>
            out.payload.changed = FALSE /\ out.payload.blocking = TRUE

\* a non-check enable with a timer parameter met an enabled appliance
C5_Witness ==
    /\ pc = "done"
    /\ inv.module = "dns_control"
    /\ inv.selector = "enable"
    /\ ~inv.check_mode
    /\ inv.timer = PyInt(MaxTimer)
    /\ Opened
    /\ ReportsEnabledNoTimer(calls[2].resp)
    /\ out.kind = "exit_json"

----------------------------------------------------------------------------
(* C6: after a successful non-check dns_control disable with timer T > 0,  *)
(* issued while blocking was enabled, a following status invocation made   *)
(* while the appliance's timer is still running, and whose status read     *)
(* returns the appliance's state, reports blocking=false, changed=false    *)
(* and a timer equal to the remaining timer the appliance holds.           *)
ReportsState(resp) ==
    resp = OkR([blocking |-> PyBool(appliance.blocking),
                timer |-> PyInt(appliance.timer)])

C6_StatusAfterTimedDisable ==
    (/\ prevDisable
     /\ inv.module = "dns_control"
     /\ inv.selector = "status"
     /\ pc = "done"
     /\ Opened
     /\ appliance.timer > 0
     /\ ReportsState(calls[2].resp))
    => /\ out.kind = "exit_json"
       /\ out.payload.blocking = FALSE
       /\ out.payload.changed = FALSE
       /\ "timer" \in DOMAIN out.payload
       /\ out.payload.timer = appliance.timer

\* such a status invocation has exited, after the timer had counted down
C6_Witness ==
    /\ prevDisable
    /\ inv.module = "dns_control"
    /\ inv.selector = "status"
    /\ pc = "done"
    /\ out.kind = "exit_json"
    /\ appliance.timer > 0
    /\ appliance.timer < MaxTimer
    /\ ReportsState(calls[2].resp)

----------------------------------------------------------------------------
(* C7: in every module with an operation selector, a selector outside the  *)
(* module's enumerated set makes the invocation fail before the client is  *)
(* constructed and before any remote call.                                 *)
C7_InvalidSelectorFailsFirst ==
    (HasSelector(inv.module) /\ inv.selector \notin Choices(inv.module))
    => /\ pc = "done"
       /\ out.kind = "fail_json"
       /\ calls = <<>>

\* an invocation with a selector outside the set has terminated
C7_Witness ==
    /\ pc = "done"
    /\ inv.module = "metrics"
    /\ inv.selector = "bogus"
    /\ inv.has_lib
    /\ out.kind = "fail_json"

----------------------------------------------------------------------------
(* C8: config_management fails before the client is constructed and before *)
(* any remote call when a parameter the action requires is missing or      *)
(* empty: element or value for add_item/delete_item, config_changes for    *)
(* update, export_path for export, import_path for import; in check and    *)
(* non-check mode.                                                         *)
Blank(x) == x \in {None, PyStr(""), PyDict({})}

MissingRequired(action, p) ==
    \/ action \in {"add_item", "delete_item"}
       /\ (Blank(p.element) \/ Blank(p.value))
    \/ action = "update" /\ Blank(p.config_changes)
    \/ action = "export" /\ Blank(p.export_path)
    \/ action = "import" /\ Blank(p.import_path)

C8_MissingParameterFailsFirst ==
    (inv.module = "config_management"
     /\ MissingRequired(inv.selector, inv.params))
    => /\ pc = "done"
       /\ out.kind = "fail_json"
       /\ calls = <<>>

\* a check-mode add_item with an empty value has terminated
C8_Witness ==
    /\ pc = "done"
    /\ inv.module = "config_management"
    /\ inv.selector = "add_item"
    /\ inv.check_mode
    /\ inv.has_lib
    /\ inv.params.element = PyStr("dns.upstreams")
    /\ inv.params.value = PyStr("")
    /\ out.kind = "fail_json"

----------------------------------------------------------------------------
\* the remote calls that implement a requested operation (not the session
\* open and close, the group lookup or the existence check)
OperationOps ==
    (MutatingOps \ {"write_file"})
    \cup {"get_config", "get_config_section", "export_settings",
          "get_blocking_status", "get_network_info", "get_network_devices",
          "get_ftl_info"}
    \cup {MetricMethod(t) : t \in MetricsChoices}

(* C9: in every module and for every selector, when the remote call that   *)
(* implements the requested operation raises, the invocation terminates    *)
(* by fail_json, not by a normal exit.                                     *)
C9_RaisedCallFailsInvocation ==
    \A i \in 1..Len(calls) :
        (pc = "done" /\ calls[i].op \in OperationOps
         /\ calls[i].resp.kind = "raise")
        => out.kind = "fail_json"

----------------------------------------------------------------------------
\* the operations that answer with a structured body (export_settings
\* answers with an opaque blob, the status read with the blocking state)
StructuredOps == OperationOps \ {"export_settings", "get_blocking_status"}

(* C10: in every module, when the remote call returns a structured         *)
(* response that indicates failure (success flag false or absent), the     *)
(* invocation is reported as a failure with that response body attached    *)
(* unchanged.                                                              *)
C10_StructuredFailureFailsEverywhere ==
    \A i \in 1..Len(calls) :
        (pc = "done" /\ calls[i].op \in StructuredOps
         /\ IndicatesFailure(calls[i].resp))
        => /\ out.kind = "fail_json"
           /\ "response" \in DOMAIN out.payload
           /\ out.payload.response = calls[i].resp.body

----------------------------------------------------------------------------
(* C11: in every module a failure of close_session is swallowed and never  *)
(* masks the primary result: the step that closes the session leaves the   *)
(* result dict as it is and ends in exit_json of that result, the same    *)
(* terminal outcome and fields whether close_session returned or raised.   *)
CloseKeepsResult ==
    (pc = "closing" /\ pc' = "done")
    => /\ result' = result
       /\ out' = Returned(ExitJson(result), inv.module, inv.password)
       /\ calls'[Len(calls')].op = "close_session"

C11_CloseFailureSwallowed == [][CloseKeepsResult]_vars

\* a session close raised after a change was made, and the module exited
\* normally with the result of the change
C11_Witness ==
    /\ pc = "done"
    /\ Len(calls) > 1
    /\ calls[Len(calls)].op = "close_session"
    /\ calls[Len(calls)].resp.kind = "raise"
    /\ out = Returned(ExitJson(result), inv.module, inv.password)
    /\ "changed" \in DOMAIN result
    /\ result.changed

----------------------------------------------------------------------------
(* C12: every invocation that constructs a client constructs exactly one   *)
(* and calls close_session on it before the invocation terminates, on      *)
(* every path: normal exit, failure reported by the remote operation and   *)
(* check mode.                                                             *)
C12_OneClientAlwaysClosed ==
    (pc = "done" /\ Opened)
    => /\ Cardinality(CallsOf("PiHole6Client")) = 1
       /\ Cardinality(CallsOf("close_session")) = 1

----------------------------------------------------------------------------
(* C13: in every module the value of the password parameter never appears  *)
(* in any field of what exit_json or fail_json returns (msg, error,        *)
(* response, data, config, the per-entry records or the echoed selector    *)
(* and path fields), whatever the remote calls returned or raised.         *)

\* the texts of a response dict
DictTexts(d) == {d[k] : k \in DOMAIN d \cap TextKeys}

\* every text of a returned payload
PayloadTexts(p) ==
    (IF "msg" \in DOMAIN p THEN {p.msg[i] : i \in DOMAIN p.msg} ELSE {})
    \cup {p[k] : k \in DOMAIN p \cap {"error", "action_performed",
                                     "metric_type", "info_type",
                                     "export_path"}}
    \cup UNION {DictTexts(p[k]) :
                  k \in DOMAIN p \cap {"response", "data", "config"}}
    \cup (IF "domains" \in DOMAIN p
          THEN {p.domains[i] : i \in DOMAIN p.domains} ELSE {})
    \cup (IF "results" \in DOMAIN p
          THEN UNION {IF "response" \in DOMAIN p.results[i]
                      THEN DictTexts(p.results[i].response) ELSE {} :
                        i \in DOMAIN p.results}
          ELSE {})

----------------------------------------------------------------------------
\* the result carries a message: msg or message at the top, or a message
\* inside response
CarriesMessage(p) ==
    \/ "msg" \in DOMAIN p
    \/ "message" \in DOMAIN p
    \/ "response" \in DOMAIN p /\ "message" \in DOMAIN p.response

(* C14: in check mode, whenever actions, config_management, dns_control or *)
(* domain_management reports a hypothetical mutation (changed=true), the   *)
(* result contains a message naming the action and its target.             *)
C14_CheckModeMessage ==
    (/\ pc = "done"
     /\ inv.check_mode
     /\ inv.module \in {"actions", "config_management", "dns_control",
                        "domain_management"}
     /\ out.kind = "exit_json"
     /\ out.payload.changed)
    => CarriesMessage(out.payload)

----------------------------------------------------------------------------
\* a mutating remote call was issued and answered success
RemoteMutation ==
    \E i \in 1..Len(calls) :
        /\ calls[i].op \in MutatingOps \ {"write_file"}
        /\ calls[i].resp.kind = "ok"
        /\ Get(calls[i].resp.body, "success", FALSE)

\* the export file was written
FileWritten == CallsOf("write_file") # {}

ReadOnlyInvocation ==
    \/ inv.module \in {"metrics", "network_info", "ftl_info"}
    \/ inv.module = "dns_control" /\ inv.selector = "status"
    \/ inv.module = "config_management" /\ inv.selector = "get"

ReportsChanged ==
    out.kind # "none" /\ "changed" \in DOMAIN out.payload /\ out.payload.changed

(* C15 as stated: not in check mode, every module reports changed=true     *)
(* only if a mutating remote call was issued and returned success, and the *)
(* read-only selectors never report changed=true.                          *)
C15_ChangedOnlyAfterRemoteMutation ==
    (~inv.check_mode /\ ReportsChanged)
    => RemoteMutation /\ ~ReadOnlyInvocation

(* C15 amended: not in check mode, every module reports changed=true only  *)
(* if a mutating remote call was issued and returned success or, for       *)
(* config_management export, the exported configuration was written to     *)
(* export_path; the read-only selectors never report changed=true.         *)
C15_ChangedOnlyAfterMutation ==
    (~inv.check_mode /\ ReportsChanged)
    => /\ RemoteMutation
          \/ (inv.module = "config_management" /\ inv.selector = "export"
              /\ FileWritten)
       /\ ~ReadOnlyInvocation

\* a non-check run whose mutating call succeeded reported the change
C15_Witness ==
    /\ pc = "done"
    /\ ~inv.check_mode
    /\ inv.module = "actions"
    /\ RemoteMutation
    /\ out.kind = "exit_json"
    /\ out.payload.changed

----------------------------------------------------------------------------
(* C16: dns_control always returns blocking and action_performed: every    *)
(* terminal result of an invocation that got as far as constructing the    *)
(* client, on normal exit and on every failure path, contains a blocking   *)
(* field and an action_performed field equal to the requested action.      *)
C16_DnsAlwaysReturnsBlocking ==
    (pc = "done" /\ inv.module = "dns_control" /\ calls # <<>>)
    => /\ "blocking" \in DOMAIN out.payload
       /\ "action_performed" \in DOMAIN out.payload
       /\ out.payload.action_performed = inv.selector

----------------------------------------------------------------------------
(* C17: dns_control returns the timer field only when a timer is active:   *)
(* after a successful enable or disable issued without a timer parameter   *)
(* the result carries no timer field, also when the appliance reported an  *)
(* active timer before the change.                                         *)
C17_NoTimerAfterPermanentChange ==
    (/\ pc = "done"
     /\ inv.module = "dns_control"
     /\ inv.selector \in {"enable", "disable"}
     /\ ~inv.check_mode
     /\ ~Truthy(inv.timer)
     /\ out.kind = "exit_json"
     /\ out.payload.changed)
    => "timer" \notin DOMAIN out.payload

----------------------------------------------------------------------------
\* the read call of metrics, network_info and ftl_info
ReadCalls ==
    {i \in 1..Len(calls) :
        calls[i].op \in {"get_network_info", "get_network_devices",
                         "get_ftl_info"}
                        \cup {MetricMethod(t) : t \in MetricsChoices}}

\* a call other than the session close raised with this text
RaisedWith(text) ==
    \E i \in 1..Len(calls) :
        /\ calls[i].op # "close_session"
        /\ calls[i].resp = RaiseR(text)

(* C18: for metrics, network_info and ftl_info, once the client is         *)
(* constructed exactly one remote read call is made, and success is true   *)
(* exactly when that call returned without raising; on success the module  *)
(* exits normally with data the response as returned and error empty; on   *)
(* failure (the read or the construction raised) error is the text of the  *)
(* exception, data stays empty and the invocation ends by fail_json.  The  *)
(* fields are those of the result dict handed to exit_json / fail_json.    *)
C18_ReadOnlySuccess ==
    (/\ pc = "done"
     /\ inv.module \in {"metrics", "network_info", "ftl_info"}
     /\ calls # <<>>)
    => /\ Cardinality(ReadCalls) = IF Opened THEN 1 ELSE 0
       /\ result.success <=> \E i \in ReadCalls : calls[i].resp.kind = "ok"
       /\ out.payload.success = result.success
       /\ IF result.success
          THEN /\ out = Returned(ExitJson(result), inv.module, inv.password)
               /\ \A i \in ReadCalls : result.data = calls[i].resp.body
               /\ result.error = ""
          ELSE /\ out.kind = "fail_json"
               /\ "msg" \in DOMAIN out.payload
               /\ \A k \in DOMAIN result :
                    out.payload[k] =
                      RemoveValues(result,
                                   NoLogValues(inv.module, inv.password))[k]
               /\ result.data = EmptyDict
               /\ RaisedWith(result.error)

\* a read returned and the module exited with its body as data
C18_Witness ==
    /\ pc = "done"
    /\ inv.module = "network_info"
    /\ inv.selector = "network_devices"
    /\ out.kind = "exit_json"
    /\ out.payload.success
    /\ out.payload.data = [data |-> "payload"]
    /\ out.payload.error = ""

\* a read raised and the module failed with the text as error
C18_WitnessFailure ==
    /\ pc = "done"
    /\ inv.module = "ftl_info"
    /\ Opened
    /\ out.kind = "fail_json"
    /\ out.payload.error = "connection refused"
    /\ out.payload.data = EmptyDict

----------------------------------------------------------------------------
(* C19: in metrics a supplied count is forwarded to the remote call that   *)
(* serves top_clients, top_domains, recent_blocked and queries, and each   *)
(* metric_type triggers exactly one remote read call.                      *)
C19_CountForwarded ==
    (pc = "done" /\ inv.module = "metrics" /\ Opened)
    => /\ Cardinality(ReadCalls) = 1
       /\ (inv.selector \in {"top_clients", "top_domains", "recent_blocked",
                             "queries"}
           /\ inv.params.count # None)
          => \A i \in ReadCalls :
               /\ "count" \in DOMAIN calls[i].args
               /\ calls[i].args.count = inv.params.count

----------------------------------------------------------------------------
\* what the status read of this invocation reported (blocking defaults to
\* false and timer to 0 when the body lacks them)
ReadBlocking == Get(calls[2].resp.body, "blocking", PyBool(FALSE))
ReadTimer == Get(calls[2].resp.body, "timer", PyInt(0))

\* the status read returned a blocking value and a timer that is not null
StatusReadSucceeded ==
    /\ Len(calls) >= 2
    /\ calls[2].op = "get_blocking_status"
    /\ calls[2].resp.kind = "ok"
    /\ ReadBlocking # None
    /\ ReadTimer # None

\* the change the action asks for is not yet in place
ChangeNeeded ==
    \/ inv.selector = "enable" /\ (~ReadBlocking.v \/ ReadTimer.v > 0)
    \/ inv.selector = "disable" /\ ReadBlocking.v

C20_WitnessCall ==
    /\ pc = "done"
    /\ inv.module = "dns_control"
    /\ inv.selector = "enable"
    /\ ~inv.check_mode
    /\ StatusReadSucceeded
    /\ ReadBlocking.v
    /\ ReadTimer.v > 0
    /\ Cardinality(CallsOf("set_blocking_status")) = 1

----------------------------------------------------------------------------
\* the status read raised, or returned a null blocking value
StatusReadFailed ==
    \/ calls[2].resp.kind = "raise"
    \/ calls[2].resp.kind = "ok" /\ ReadBlocking = None

(* C21: in dns_control every action first reads the current blocking       *)
(* status, once, before any set_blocking_status call; when that read       *)
(* raises or yields no blocking value (None), the invocation fails with    *)
(* changed=false and no set_blocking_status call is issued.                *)
C21_StatusReadFirst ==
    (inv.module = "dns_control" /\ BodyDone)
    => /\ CallsOf("get_blocking_status") = {2}
       /\ \A i \in CallsOf("set_blocking_status") : i > 2
       /\ StatusReadFailed
          => /\ pc = "done"
             /\ out.kind = "fail_json"
             /\ ~out.payload.changed
             /\ CallsOf("set_blocking_status") = {}

\* an enable whose status read raised has failed without a call
C21_Witness ==
    /\ pc = "done"
    /\ inv.module = "dns_control"
    /\ inv.selector = "enable"
    /\ ~inv.check_mode
    /\ Len(calls) = 2
    /\ calls[2].op = "get_blocking_status"
    /\ calls[2].resp.kind = "raise"
    /\ out.kind = "fail_json"
    /\ ~out.payload.changed

\* a disable whose status read returned blocking: null has failed
C21_WitnessNull ==
    /\ pc = "done"
    /\ inv.module = "dns_control"
    /\ inv.selector = "disable"
    /\ Len(calls) = 2
    /\ calls[2].resp.kind = "ok"
    /\ ReadBlocking = None
    /\ out.kind = "fail_json"

----------------------------------------------------------------------------
\* the status read returned a blocking value and "timer": null
NullTimerRead ==
    /\ Len(calls) >= 2
    /\ calls[2].op = "get_blocking_status"
    /\ calls[2].resp.kind = "ok"
    /\ ReadBlocking # None
    /\ ReadTimer = None

\* what enable and disable decide when the timer is 0
ChangeNeededNoTimer ==
    \/ inv.selector = "enable" /\ ~ReadBlocking.v
    \/ inv.selector = "disable" /\ ReadBlocking.v

(* C22: in dns_control, when the status read succeeds with a timer key     *)
(* whose value is null, the module treats it as no active timer: status    *)
(* exits normally with changed=false and no timer field, and enable and    *)
(* disable decide as for timer = 0.                                        *)
C22_NullTimerIsNoTimer ==
    (inv.module = "dns_control" /\ pc = "done" /\ NullTimerRead)
    => /\ inv.selector = "status"
          => /\ out.kind = "exit_json"
             /\ ~out.payload.changed
             /\ "timer" \notin DOMAIN out.payload
       /\ (inv.selector \in {"enable", "disable"} /\ ~inv.check_mode)
          => Cardinality(CallsOf("set_blocking_status"))
               = IF ChangeNeededNoTimer THEN 1 ELSE 0

----------------------------------------------------------------------------
\* some record of the list has changed=true
AnyChanged(results) == \E j \in 1..Len(results) : results[j].changed

(* C23: in domain_management the overall changed is true exactly when some *)
(* record appended to results so far has changed=true, after every         *)
(* iteration of the batch loop and in what the module returns; with an     *)
(* empty domains list the module exits with changed=false and empty        *)
(* results, without constructing a client.                                 *)
C23_ChangedIffSomeRecordChanged ==
    (inv.module = "domain_management" /\ inv.has_lib)
    => /\ result.changed <=> AnyChanged(result.results)
       /\ pc = "done"
          => (out.payload.changed <=> AnyChanged(out.payload.results))
       /\ inv.domains = <<>>
          => /\ pc = "done"
             /\ out.kind = "exit_json"
             /\ ~out.payload.changed
             /\ out.payload.results = <<>>
             /\ calls = <<>>

\* a finished batch whose first entry changed and whose last did not
C23_Witness ==
    /\ pc = "done"
    /\ inv.module = "domain_management"
    /\ Len(inv.domains) = MaxBatch
    /\ Len(result.results) = MaxBatch
    /\ result.results[1].changed
    /\ ~result.results[MaxBatch].changed
    /\ out.kind = "exit_json"
    /\ out.payload.changed

\* an empty batch has exited without a client
C23_WitnessEmpty ==
    /\ pc = "done"
    /\ inv.module = "domain_management"
    /\ inv.has_lib
    /\ inv.domains = <<>>
    /\ out.kind = "exit_json"
    /\ calls = <<>>

----------------------------------------------------------------------------
\* entry j asks for state=present and its existence check answered success
PresentAndExists(j) ==
    /\ inv.domains[j].state = "present"
    /\ EntryCalls("get_domain", j) # {}
    /\ domain_exists(ExistsAnswer(j))

\* entry j's update_domain call answered success
UpdateSucceeded(j) ==
    \E i \in EntryCalls("update_domain", j) :
        calls[i].resp.kind = "ok"
        /\ Get(calls[i].resp.body, "success", FALSE)

(* C24: in domain_management outside check mode, a state=present entry     *)
(* that already exists always triggers exactly one update_domain call (and *)
(* no add_domain call) and is recorded with changed=true when that call    *)
(* succeeds; the overall changed is then true as well, in every            *)
(* invocation, a repeated one included.                                    *)
C24_ExistingPresentAlwaysUpdates ==
    (inv.module = "domain_management" /\ inv.has_lib /\ ~inv.check_mode)
    => \A j \in 1..Len(result.results) :
         PresentAndExists(j)
         => /\ Cardinality(EntryCalls("update_domain", j)) = 1
            /\ EntryCalls("add_domain", j) = {}
            /\ UpdateSucceeded(j)
               => /\ result.results[j].changed
                  /\ result.results[j].success
                  /\ result.changed
                  /\ pc = "done" => out.payload.changed

\* a finished batch whose entries were all listed already and all updated
\* with success
C24_Witness ==
    /\ pc = "done"
    /\ inv.module = "domain_management"
    /\ ~inv.check_mode
    /\ Len(inv.domains) = MaxBatch
    /\ Len(result.results) = MaxBatch
    /\ \A j \in 1..MaxBatch : PresentAndExists(j) /\ UpdateSucceeded(j)
    /\ out.kind = "exit_json"
    /\ out.payload.changed

----------------------------------------------------------------------------
\* entry j's existence check raised or answered without a success flag
CheckUndecided(j) ==
    /\ EntryCalls("get_domain", j) # {}
    /\ \/ ExistsAnswer(j).kind = "raise"
       \/ "success" \notin DOMAIN ExistsAnswer(j).body

(* C25: in domain_management, when the existence check raises or returns   *)
(* no success flag, the entry is treated as not existing: a state=present  *)
(* entry takes the add branch, which is exactly one add_domain call outside*)
(* check mode and a record with changed=true and no call in check mode,    *)
(* and never an update_domain call; a state=absent entry makes no          *)
(* delete_domain call and is recorded with changed=false and success=false.*)
C25_UndecidedCheckMeansAbsent ==
    (inv.module = "domain_management" /\ inv.has_lib)
    => \A j \in 1..Len(result.results) :
         CheckUndecided(j)
         => /\ EntryCalls("update_domain", j) = {}
            /\ inv.domains[j].state = "present"
               => /\ EntryCalls("delete_domain", j) = {}
                  /\ Cardinality(EntryCalls("add_domain", j))
                       = IF inv.check_mode THEN 0 ELSE 1
                  /\ inv.check_mode => result.results[j].changed
            /\ inv.domains[j].state = "absent"
               => /\ OpCalls(j) = {}
                  /\ ~result.results[j].changed
                  /\ ~result.results[j].success

\* a present entry whose existence check raised was added, and an absent
\* one whose check could not tell was left alone
C25_Witness ==
    /\ pc = "done"
    /\ inv.module = "domain_management"
    /\ ~inv.check_mode
    /\ Len(result.results) = MaxBatch
    /\ inv.domains[1].state = "present"
    /\ ExistsAnswer(1).kind = "raise"
    /\ EntryCalls("add_domain", 1) # {}
    /\ inv.domains[MaxBatch].state = "absent"
    /\ CheckUndecided(MaxBatch)
    /\ ~result.results[MaxBatch].changed

\* in check mode the add is only reported
C25_WitnessCheckMode ==
    /\ pc = "done"
    /\ inv.module = "domain_management"
    /\ inv.check_mode
    /\ Len(result.results) >= 1
    /\ inv.domains[1].state = "present"
    /\ CheckUndecided(1)
    /\ result.results[1].changed
    /\ OpCalls(1) = {}

====
